---- MODULE Spec2Model ----
(***************************************************************************)
(* Model of scripts/generate_market_blog.py: the daily Korean stock report *)
(* generator (mover selection, commentary rules, related-news ranking, and *)
(* the cumulative report archive kept in reports/report_index.json).       *)
(*                                                                         *)
(* Text is modelled as a sequence of tokens.  A token is a word (it holds  *)
(* no white space), the blank " " or the hyphen "-".  Korean words are     *)
(* written "ko:<romanised>"; str.lower() leaves them unchanged, as it      *)
(* leaves Hangul unchanged.  Latin words keep their case.                  *)
(***************************************************************************)
EXTENDS Integers, Sequences, FiniteSets, TLC

VARIABLES
    today,          \* dt.date.today() of the current process (day ordinal)
    pc,             \* position of the generator process
    runs,           \* number of generator processes started so far
    archive,        \* reports/report_index.json on disk: key -> record
    files,          \* the names of the *.html files in REPORT_DIR
    index_html,     \* index.html on disk: the dates listed, newest first
    sitemap_xml,    \* sitemap.xml on disk: the report paths listed
    report_meta,    \* main(): the in-memory archive of the running process
    target_days,    \* main(): biz_days[-10:]
    di,             \* main(): index (1-based) of the day being built
    df,             \* build_day_report(): the filtered frame of the day
    gainers,        \* build_day_report(): df sorted descending, head(30)
    losers,         \* build_day_report(): df sorted ascending, head(30)
    direction,      \* build_deep_cards(): direction of the running call
    ci,             \* build_deep_cards(): rank i of the next card
    cards,          \* the deep cards rendered so far for the day being built
    NEWS_CACHE,     \* module global: cache_key -> items
    feed_requests,  \* requests.get calls of this process, per cache_key
    calls,          \* fetch_related_news invocations of this process
    loaded,         \* the keys load_existing_meta() returned to this process
    crashes,        \* number of processes an exception has ended so far
    probe           \* a direct call of one function: arguments and result

vars == <<today, pc, runs, archive, files, index_html, sitemap_xml,
          report_meta, target_days, di, df, gainers, losers, direction, ci,
          cards, NEWS_CACHE, feed_requests, calls, loaded, crashes, probe>>

mainVars == <<today, pc, runs, archive, files, index_html, sitemap_xml,
              report_meta, target_days, di, df, gainers, losers, direction,
              ci, cards, NEWS_CACHE, feed_requests, calls, loaded,
              crashes>>

-----------------------------------------------------------------------------
(* Generic helpers                                                         *)

Range(s) == {s[k] : k \in DOMAIN s}

Min(a, b) == IF a <= b THEN a ELSE b

Head_n(s, n) == SubSeq(s, 1, Min(n, Len(s)))

EmptyMap == [k \in {} |-> 0]

Put(m, k, v) == [x \in DOMAIN m \cup {k} |-> IF x = k THEN v ELSE m[x]]

SeqsUpTo(S, n) == UNION {[1..k -> S] : k \in 0..n}

-----------------------------------------------------------------------------
(* Text operations                                                         *)

\* str.lower() on one token
LowerTok(t) ==
    CASE t = "ACME"      -> "acme"
      [] t = "Acme"      -> "acme"
      [] t = "BETA"      -> "beta"
      [] t = "Chosunbiz" -> "chosunbiz"
      [] t = "CHOSUNBIZ" -> "chosunbiz"
      [] t = "MK.co.kr"  -> "mk.co.kr"
      [] t = "Blog"      -> "blog"
      [] OTHER           -> t

\* str.lower()
Lower(s) == [k \in DOMAIN s |-> LowerTok(s[k])]

RECURSIVE LStrip(_)
LStrip(s) == IF s # <<>> /\ Head(s) = " " THEN LStrip(Tail(s)) ELSE s

RECURSIVE RStrip(_)
RStrip(s) ==
    IF s # <<>> /\ s[Len(s)] = " " THEN RStrip(SubSeq(s, 1, Len(s) - 1)) ELSE s

\* str.strip()
Strip(s) == LStrip(RStrip(s))

\* sub in s
Contains(sub, s) ==
    \E k \in 0..(Len(s) - Len(sub)) : SubSeq(s, k + 1, k + Len(sub)) = sub

SEP == <<" ", "-", " ">>

\* the start positions of " - " in title
SepAt(title) == {k \in 1..(Len(title) - 2) : SubSeq(title, k, k + 2) = SEP}

-----------------------------------------------------------------------------
(* Program constants                                                       *)

NEWS_LOOKBACK_DAYS == 3
NEWS_TOP_LIMIT == 5
MAX_NEWS_PER_STOCK == 3

TRUSTED_NEWS_SOURCES ==
    { <<"ko:yonhapnews">>, <<"ko:newsis">>, <<"ko:moneytoday">>,
      <<"ko:hankyung">>, <<"ko:maeilgyeongje">>, <<"ko:seoulgyeongje">>,
      <<"ko:edaily">>, <<"ko:asiagyeongje">>, <<"ko:financialnews">>,
      <<"ko:hankyungtv">>, <<"ko:news1">>, <<"ko:chosunbiz">>,
      <<"ko:jeonjasinmun">>, <<"ko:heraldgyeongje">>, <<"ko:dealsite">>,
      <<"Chosunbiz">> }

\* SOURCE_ALIAS.get(s, default)
SOURCE_ALIAS_get(s, default) ==
    CASE s = <<"chosunbiz">>       -> <<"Chosunbiz">>
      [] s = <<"ko:chosunbiz">>    -> <<"Chosunbiz">>
      [] s = <<"ko:maegyeongdotcom">> -> <<"ko:maeilgyeongje">>
      [] s = <<"mk.co.kr">>        -> <<"ko:maeilgyeongje">>
      [] OTHER                     -> default

direction_words(d) ==
    IF d = "up"
    THEN {"ko:geupdeung", "ko:sangseung", "ko:hojae", "ko:siljeok", "ko:suju",
          "ko:gyeyak"}
    ELSE {"ko:geuprak", "ko:harak", "ko:akjae", "ko:risk", "ko:uryeo",
          "ko:jeokja"}

Directions == {"up", "down"}

-----------------------------------------------------------------------------
(* fetch_related_news: parsing, scoring, ranking                           *)

normalize_source_name(source) ==
    LET s == Strip(source)
    IN  IF s = <<>> THEN <<>>
        ELSE SOURCE_ALIAS_get(Lower(s), SOURCE_ALIAS_get(s, s))

\* returns <<headline, source suffix>>
split_title_source(title) ==
    IF SepAt(title) # {}
    THEN LET k == CHOOSE x \in SepAt(title) : \A y \in SepAt(title) : y <= x
         IN  << Strip(SubSeq(title, 1, k - 1)),
                Strip(SubSeq(title, k + 3, Len(title))) >>
    ELSE << Strip(title), <<>> >>

\* the score without the points of the allow-list
Score_nobonus(headline, source, stock_name, d) ==
      (IF Contains(stock_name, headline) THEN 4 ELSE 0)
    + (IF \E w \in direction_words(d) : Contains(<<w>>, headline) THEN 2 ELSE 0)

\* the score of one headline from one source
Score(headline, source, stock_name, d) ==
      (IF Contains(stock_name, headline) THEN 4 ELSE 0)
    + (IF \E w \in direction_words(d) : Contains(<<w>>, headline) THEN 2 ELSE 0)
    + (IF source \in TRUSTED_NEWS_SOURCES THEN 3 ELSE 0)

\* One <item> of the feed: its title, link, pubDate and source texts as they
\* stand in the XML ("" for a missing element is the empty sequence).
\* The candidate of item number n; <<>> when the item is skipped.
Candidate(item, n, stock_name, d) ==
    LET title  == Strip(item.title)
        link   == Strip(item.link)
        source == Strip(item.source)
    IN  IF title = <<>> \/ link = <<>> THEN <<>>
        ELSE LET hs   == split_title_source(title)
                 src  == normalize_source_name(
                             IF source # <<>> THEN source ELSE hs[2])
             IN  << [ title    |-> hs[1],
                      link     |-> link,
                      pub_date |-> Strip(item.pubDate),
                      source   |-> src,
                      score    |-> Score(hs[1], src, stock_name, d),
                      item     |-> n ] >>

\* the candidates list after the for loop over root.findall("./channel/item")
RECURSIVE Candidates(_, _, _, _)
Candidates(feed, n, stock_name, d) ==
    IF n > Len(feed) THEN <<>>
    ELSE Candidate(feed[n], n, stock_name, d)
           \o Candidates(feed, n + 1, stock_name, d)

\* the candidates left in feed order
SortByScore_feedorder(cands) == cands

\* list.sort(key=score, reverse=True): stable, descending
RECURSIVE InsertByScore(_, _)
InsertByScore(sorted, c) ==
    IF sorted = <<>> THEN <<c>>
    ELSE IF Head(sorted).score >= c.score
         THEN <<Head(sorted)>> \o InsertByScore(Tail(sorted), c)
         ELSE <<c>> \o sorted

RECURSIVE SortByScore(_)
SortByScore(cands) ==
    IF cands = <<>> THEN <<>>
    ELSE InsertByScore(SortByScore(SubSeq(cands, 1, Len(cands) - 1)),
                       cands[Len(cands)])

NormTitle(c) == Lower(Strip(c.title))

\* the loop without the allow-list test
RECURSIVE SelectLoop_noallowlist(_, _, _, _)
SelectLoop_noallowlist(cands, k, seen, kept) ==
    IF k > Len(cands) THEN kept
    ELSE LET c == cands[k]
             norm == NormTitle(c)
         IN  IF norm \in seen THEN SelectLoop_noallowlist(cands, k + 1, seen, kept)
             ELSE IF c.score < 2
                  THEN SelectLoop_noallowlist(cands, k + 1, seen \cup {norm}, kept)
             ELSE IF Len(kept) + 1 >= MAX_NEWS_PER_STOCK
                  THEN Append(kept, c)
             ELSE SelectLoop_noallowlist(cands, k + 1, seen \cup {norm},
                                         Append(kept, c))

\* the dedup / allow-list / threshold loop over the sorted candidates,
\* from candidate k on, with seen_titles = seen and items = kept
RECURSIVE SelectLoop(_, _, _, _)
SelectLoop(cands, k, seen, kept) ==
    IF k > Len(cands) THEN kept
    ELSE LET c == cands[k]
             norm == NormTitle(c)
         IN  IF norm \in seen THEN SelectLoop(cands, k + 1, seen, kept)
             ELSE IF c.source \notin TRUSTED_NEWS_SOURCES
                  THEN SelectLoop(cands, k + 1, seen \cup {norm}, kept)
             ELSE IF c.score < 2
                  THEN SelectLoop(cands, k + 1, seen \cup {norm}, kept)
             ELSE IF Len(kept) + 1 >= MAX_NEWS_PER_STOCK
                  THEN Append(kept, c)
             ELSE SelectLoop(cands, k + 1, seen \cup {norm}, Append(kept, c))

\* the candidates the loop keeps, in order
Kept(feed, stock_name, d) ==
    SelectLoop(SortByScore(Candidates(feed, 1, stock_name, d)), 1, {}, <<>>)

\* the dict appended to items for a kept candidate
NewsItem(c) ==
    [title |-> c.title, link |-> c.link, pub_date |-> c.pub_date,
     source |-> c.source]

\* the items returned for a feed that was fetched and parsed
RankNews(feed, stock_name, d) ==
    LET kept == Kept(feed, stock_name, d)
    IN  [k \in DOMAIN kept |-> NewsItem(kept[k])]

-----------------------------------------------------------------------------
(* stock_comment.  Rates are whole percents; turnover and median_turnover  *)
(* are numbers of one common unit.  The labels stand for the Korean ones   *)
(* of the source, in its order: trend at lines 61..73, flow at 76..80.     *)

\* the momentum thresholds taken as exclusive
stock_comment_trend_strict(rate) ==
    IF rate > 20 THEN "sharp surge"
    ELSE IF rate > 10 THEN "strong rise"
    ELSE IF rate > 5 THEN "moderate rise"
    ELSE IF rate < -20 THEN "sharp plunge"
    ELSE IF rate < -10 THEN "strong fall"
    ELSE IF rate < -5 THEN "moderate fall"
    ELSE "flat/range-bound"

stock_comment_trend(rate) ==
    IF rate >= 20 THEN "sharp surge"
    ELSE IF rate >= 10 THEN "strong rise"
    ELSE IF rate >= 5 THEN "moderate rise"
    ELSE IF rate <= -20 THEN "sharp plunge"
    ELSE IF rate <= -10 THEN "strong fall"
    ELSE IF rate <= -5 THEN "moderate fall"
    ELSE "flat/range-bound"

\* the thresholds taken as strict
stock_comment_flow_strict(turnover, median_turnover) ==
    IF median_turnover > 0 /\ turnover > median_turnover * 5
    THEN "turnover concentration"
    ELSE IF median_turnover > 0 /\ turnover > median_turnover * 2
    THEN "turnover inflow"
    ELSE "turnover ordinary"

stock_comment_flow(turnover, median_turnover) ==
    IF median_turnover > 0 /\ turnover >= median_turnover * 5
    THEN "turnover concentration"
    ELSE IF median_turnover > 0 /\ turnover >= median_turnover * 2
    THEN "turnover inflow"
    ELSE "turnover ordinary"

\* f"{trend} . {flow}"
stock_comment(rate, turnover, median_turnover) ==
    << stock_comment_trend(rate), " . ",
       stock_comment_flow(turnover, median_turnover) >>

-----------------------------------------------------------------------------
(* build_day_report: the mover selection.  A row of the frame is a record  *)
(* [ticker, name, rate, volume, turnover]: the columns index, jongmokmyeong,*)
(* deungrakryul, georaeryang, georaedaegeum of the provider's frame.       *)

TOP_N == 30
DEEP_CARDS == 10
TOP_FOCUS_N == 5
MIN_VOLUME == 1000
MAX_RATE == 30

\* the filter without the volume test
FilterFrame_novolume(frame) ==
    SelectSeq(frame, LAMBDA r : r.rate <= MAX_RATE /\ r.rate >= -MAX_RATE)

\* df[(volume >= 1000) & (rate <= 30) & (rate >= -30)]
FilterFrame(frame) ==
    SelectSeq(frame, LAMBDA r : r.volume >= MIN_VOLUME /\ r.rate <= MAX_RATE
                                 /\ r.rate >= -MAX_RATE)

\* insertion of row r into a frame sorted on column col; rows with equal
\* keys keep their order of arrival (pandas leaves the order of equal keys
\* to the sort algorithm; no property below reads it)
RECURSIVE InsertRow(_, _, _, _)
InsertRow(sorted, r, col, ascending) ==
    IF sorted = <<>> THEN <<r>>
    ELSE IF (ascending /\ Head(sorted)[col] <= r[col])
              \/ (~ascending /\ Head(sorted)[col] >= r[col])
         THEN <<Head(sorted)>> \o InsertRow(Tail(sorted), r, col, ascending)
         ELSE <<r>> \o sorted

\* DataFrame.sort_values(col, ascending=...)
RECURSIVE sort_values(_, _, _)
sort_values(frame, col, ascending) ==
    IF frame = <<>> THEN <<>>
    ELSE InsertRow(sort_values(SubSeq(frame, 1, Len(frame) - 1), col, ascending),
                   frame[Len(frame)], col, ascending)

Gainers(frame) == Head_n(sort_values(frame, "rate", FALSE), TOP_N)

Losers(frame) == Head_n(sort_values(frame, "rate", TRUE), TOP_N)

RECURSIVE SumTurnover(_)
SumTurnover(frame) ==
    IF frame = <<>> THEN 0 ELSE Head(frame).turnover + SumTurnover(Tail(frame))

\* twice df[turnover].median() (the median of an even number of rows is the
\* mean of the two middle ones); "NaN" for an empty frame
Median2(frame) ==
    LET s == sort_values(frame, "turnover", TRUE)
        n == Len(s)
    IN  IF n = 0 THEN "NaN"
        ELSE IF n % 2 = 1 THEN 2 * s[(n + 1) \div 2].turnover
        ELSE s[n \div 2].turnover + s[n \div 2 + 1].turnover

\* the comment column of a mover list: stock_comment(rate, turnover, median),
\* with turnover and median both doubled
WithComments(sub, median2) ==
    [k \in DOMAIN sub |->
        [ticker |-> sub[k].ticker, name |-> sub[k].name, rate |-> sub[k].rate,
         volume |-> sub[k].volume, turnover |-> sub[k].turnover,
         comment |-> stock_comment(sub[k].rate, 2 * sub[k].turnover, median2)]]

\* a / b rounded to the nearest integer, b > 0
RoundDiv(a, b) == (2 * a + b) \div (2 * b)

\* round(top_focus, 2), in hundredths of a percent
TopFocus(frame) ==
    LET total == SumTurnover(frame)
    IN  IF total # 0
        THEN RoundDiv(SumTurnover(Head_n(Gainers(frame), TOP_FOCUS_N)) * 10000,
                      total)
        ELSE 0

-----------------------------------------------------------------------------
(* Dates.  Day 1 is Monday 2024-01-01; the model stays within January and  *)
(* February 2024.                                                          *)

Pad2(n) == IF n < 10 THEN "0" \o ToString(n) ELSE ToString(n)

\* date.strftime("%Y-%m-%d"), also date.isoformat()
Strftime(day) ==
    IF day <= 31 THEN "2024-01-" \o Pad2(day) ELSE "2024-02-" \o Pad2(day - 31)

ReportPath(label) == "reports/" \o label \o ".html"

\* the report record returned by build_day_report for a non-empty frame
DayRecord(day, frame) ==
    LET g == Gainers(frame)
        l == Losers(frame)
    IN  [ date      |-> Strftime(day),
          path      |-> ReportPath(Strftime(day)),
          strong    |-> <<g[1].name, g[1].rate>>,
          weak      |-> <<l[1].name, l[1].rate>>,
          advance   |-> Cardinality({k \in DOMAIN frame : frame[k].rate > 0}),
          decline   |-> Cardinality({k \in DOMAIN frame : frame[k].rate < 0}),
          flat      |-> Cardinality({k \in DOMAIN frame : frame[k].rate = 0}),
          top_focus |-> TopFocus(frame) ]

\* build_day_report on the provider's frame of a day, news left aside: the
\* outcome of the call
build_day_report(day, market) ==
    LET frame == FilterFrame(market)
        g     == Gainers(frame)
        l     == Losers(frame)
        m2    == Median2(frame)
    IN  IF g = <<>>
        THEN [raised |-> "IndexError", gainers |-> g, losers |-> l,
              size |-> Len(frame)]
        ELSE [raised |-> "", gainers |-> WithComments(g, m2),
              losers |-> WithComments(l, m2), size |-> Len(frame),
              report |-> DayRecord(day, frame)]

-----------------------------------------------------------------------------
(* The calendar and the market-data provider                               *)

WINDOW_DAYS == 10
CALENDAR_SPAN == 20

Today0 == 29        \* the date of the first run
MaxToday == 30      \* the latest date a run is started on
MaxRuns == 2        \* the number of generator processes started

\* Monday to Friday
IsBusinessDay(day) == (day - 1) % 7 < 5

\* stock.get_previous_business_days(fromdate, todate)
RECURSIVE get_previous_business_days(_, _)
get_previous_business_days(fromdate, todate) ==
    IF fromdate > todate THEN <<>>
    ELSE (IF IsBusinessDay(fromdate) THEN <<fromdate>> ELSE <<>>)
           \o get_previous_business_days(fromdate + 1, todate)

\* s[-n:]
LastN(s, n) == IF Len(s) <= n THEN s ELSE SubSeq(s, Len(s) - n + 1, Len(s))

TargetDays(t) ==
    LastN(get_previous_business_days(t - CALENDAR_SPAN, t), WINDOW_DAYS)

Row(t, n, r, v, to) ==
    [ticker |-> t, name |-> n, rate |-> r, volume |-> v, turnover |-> to]

\* a day on which two names fill six qualifying rows, and two rows do not
\* qualify
BusyMarket ==
    << Row("000001", <<"ACME">>, 29, 5000, 6000),
       Row("000002", <<"BETA">>, 12, 4000, 2500),
       Row("000003", <<"ACME">>, 8, 3000, 1500),
       Row("000004", <<"BETA">>, -6, 2000, 1000),
       Row("000005", <<"ACME">>, -15, 2500, 1000),
       Row("000006", <<"BETA">>, 0, 1000, 500),
       Row("000007", <<"ACME">>, 31, 9000, 9000),
       Row("000008", <<"BETA">>, 5, 999, 100) >>

\* a day with one qualifying instrument
QuietMarket ==
    << Row("000001", <<"ACME">>, 22, 1000, 10000),
       Row("000002", <<"BETA">>, -40, 7000, 100) >>

\* a day the exchange reports no trade for: every volume is 0
NoTrades ==
    << Row("000001", <<"ACME">>, 0, 0, 0), Row("000002", <<"BETA">>, 0, 0, 0) >>

\* the frames get_market_ohlcv_by_ticker may return for a day
ProviderFrames(day) ==
    {IF day % 5 = 4 THEN BusyMarket ELSE QuietMarket, NoTrades}

-----------------------------------------------------------------------------
(* fetch_related_news: the cache and the request                           *)

\* f"{stock_name}|{report_day.isoformat()}|{direction}"
cache_key(stock_name, report_day, d) ==
    stock_name \o <<"|", Strftime(report_day), "|", d>>

Item(t, l, s) == [title |-> t, link |-> l, pubDate |-> <<"pub">>, source |-> s]

\* The response of the feed to one request: RequestFails when requests.get,
\* raise_for_status or ET.fromstring raises, else the items of the parsed XML.
RequestFails == [error |-> TRUE]

Parsed(feed) == [error |-> FALSE, items |-> feed]

FeedWithNews ==
    << Item(<<"ACME", " ", "ko:geupdeung">>, <<"L1">>, <<"Blog">>),
       Item(<<"BETA", " ", "ko:harak", " ", "-", " ", "ko:yonhapnews">>, <<"L2">>,
            <<>>),
       Item(<<"ko:jusik", " ", "ko:sijang">>, <<"L3">>, <<"ko:newsis">>) >>

FeedResponses == {Parsed(FeedWithNews)}

\* the call with an except branch that re-raises
fetch_related_news_reraise(cache, stock_name, report_day, d, response) ==
    LET key == cache_key(stock_name, report_day, d)
    IN  IF key \in DOMAIN cache
        THEN [ret |-> cache[key], cache |-> cache, requested |-> FALSE,
              raised |-> FALSE, key |-> key]
        ELSE IF response.error
        THEN [ret |-> <<>>, cache |-> cache, requested |-> TRUE,
              raised |-> TRUE, key |-> key]
        ELSE LET items == RankNews(response.items, stock_name, d)
             IN  [ret |-> items, cache |-> Put(cache, key, items),
                  requested |-> TRUE, raised |-> FALSE, key |-> key]

\* the call with an except branch that does not store the empty result
fetch_related_news_nostore(cache, stock_name, report_day, d, response) ==
    LET key == cache_key(stock_name, report_day, d)
    IN  IF key \in DOMAIN cache
        THEN [ret |-> cache[key], cache |-> cache, requested |-> FALSE,
              raised |-> FALSE, key |-> key]
        ELSE IF response.error
        THEN [ret |-> <<>>, cache |-> cache, requested |-> TRUE,
              raised |-> FALSE, key |-> key]
        ELSE LET items == RankNews(response.items, stock_name, d)
             IN  [ret |-> items, cache |-> Put(cache, key, items),
                  requested |-> TRUE, raised |-> FALSE, key |-> key]

\* the call fetch_related_news(stock_name, report_day, d) with the cache as
\* it stands and the response the feed gives if it is asked
fetch_related_news(cache, stock_name, report_day, d, response) ==
    LET key == cache_key(stock_name, report_day, d)
    IN  IF key \in DOMAIN cache
        THEN [ret |-> cache[key], cache |-> cache, requested |-> FALSE,
              raised |-> FALSE, key |-> key]
        ELSE IF response.error
        THEN [ret |-> <<>>, cache |-> Put(cache, key, <<>>), requested |-> TRUE,
              raised |-> FALSE, key |-> key]
        ELSE LET items == RankNews(response.items, stock_name, d)
             IN  [ret |-> items, cache |-> Put(cache, key, items),
                  requested |-> TRUE, raised |-> FALSE, key |-> key]

\* the test without the rank limit
ShouldSearchNews_norank(report_day, latest_day, i) ==
    latest_day - report_day <= NEWS_LOOKBACK_DAYS

\* can_search_news and i <= NEWS_TOP_LIMIT in build_deep_cards
ShouldSearchNews(report_day, latest_day, i) ==
    latest_day - report_day <= NEWS_LOOKBACK_DAYS /\ i <= NEWS_TOP_LIMIT

\* the card build_deep_cards renders for the row of rank i
DeepCard(day, d, i, r, news_items, lookup) ==
    [ day |-> day, direction |-> d, rank |-> i, name |-> r.name, news |-> news_items,
      reason |-> IF news_items # <<>> THEN <<"related", news_items[1].title>>
                 ELSE <<"no related news">>,
      lookup |-> lookup ]

-----------------------------------------------------------------------------
(* The archive                                                             *)

Get(record, field, default) ==
    IF field \in DOMAIN record THEN record[field] ELSE default

compact_meta(record) ==
    [ date      |-> Get(record, "date", "-"),
      path      |-> Get(record, "path", ""),
      strong    |-> Get(record, "strong", "-"),
      weak      |-> Get(record, "weak", "-"),
      advance   |-> Get(record, "advance", "-"),
      decline   |-> Get(record, "decline", "-"),
      flat      |-> Get(record, "flat", "-"),
      top_focus |-> Get(record, "top_focus", "-") ]

\* the record main() synthesises for a report file without metadata
Placeholder(d) ==
    [ date |-> d, path |-> ReportPath(d), strong |-> "-", weak |-> "-",
      advance |-> "-", decline |-> "-", flat |-> "-", top_focus |-> "-" ]

\* report_index.json: [exists |-> FALSE], or the mapping it holds
load_existing_meta(file) == IF file.exists THEN file.data ELSE EmptyMap

\* the file name main() writes the report of a date to, in REPORT_DIR
ReportFile(label) == label \o ".html"

\* the dates D with a file named D.html among the names in REPORT_DIR
discover_report_dates(on_disk) ==
    {Strftime(d) : d \in {x \in 1..60 : ReportFile(Strftime(x)) \in on_disk}}

\* the day ordinal of a date label; labels sort as their days do
DateOrd(label) == CHOOSE d \in 1..60 : Strftime(d) = label

RECURSIVE SortedInts(_)
SortedInts(S) ==
    IF S = {} THEN <<>>
    ELSE LET m == CHOOSE x \in S : \A y \in S : x <= y
         IN  <<m>> \o SortedInts(S \ {m})

\* sorted(keys), for keys that are date labels
SortedDates(keys) ==
    LET days == SortedInts({DateOrd(k) : k \in keys})
    IN  [k \in DOMAIN days |-> Strftime(days[k])]

Reverse(s) == [k \in DOMAIN s |-> s[Len(s) + 1 - k]]

\* no back-fill from the files
Reconcile_nobackfill(meta, on_disk) == meta

\* the loop over discover_report_dates(): a file without metadata gets a
\* placeholder
Reconcile(meta, on_disk) ==
    [d \in DOMAIN meta \cup discover_report_dates(on_disk) |->
        IF d \in DOMAIN meta THEN meta[d] ELSE Placeholder(d)]

\* reports = [compact_meta(report_meta[d]) for d in sorted(report_meta.keys())]
Reports(meta) ==
    LET keys == SortedDates(DOMAIN meta)
    IN  [k \in DOMAIN keys |-> compact_meta(meta[keys[k]])]

\* only the newest WINDOW_DAYS reports written
SavedArchive_window(reports) ==
    LET newest == LastN(reports, WINDOW_DAYS)
    IN  [d \in {newest[k].date : k \in DOMAIN newest} |->
            newest[CHOOSE k \in DOMAIN newest : newest[k].date = d]]

\* {r["date"]: r for r in reports}, written to report_index.json
SavedArchive(reports) ==
    [d \in {reports[k].date : k \in DOMAIN reports} |->
        LET last == CHOOSE k \in DOMAIN reports :
                        /\ reports[k].date = d
                        /\ \A j \in DOMAIN reports : reports[j].date = d => j <= k
        IN  reports[last]]

\* the dates build_index lists, newest first
build_index(reports) ==
    Reverse(SortedDates({reports[k].date : k \in DOMAIN reports}))

\* the report URLs build_sitemap lists
build_sitemap(report_paths) == [k \in DOMAIN report_paths |-> "/" \o report_paths[k]]

-----------------------------------------------------------------------------
(* The generator process: main()                                           *)

disk == <<archive, files, index_html, sitemap_xml>>
frame == <<df, gainers, losers>>
position == <<direction, ci, cards>>
news == <<NEWS_CACHE, feed_requests, calls>>

Exited == pc \in {"idle", "done", "DataSourceError", "IndexError", "RequestError"}

NoFile == [exists |-> FALSE]

MainInit ==
    /\ today = Today0
    /\ pc = "idle"
    /\ runs = 0
    /\ archive = NoFile
    /\ files = {}
    /\ index_html = <<>>
    /\ sitemap_xml = <<>>
    /\ report_meta = EmptyMap
    /\ target_days = <<>>
    /\ di = 1
    /\ df = <<>>
    /\ gainers = <<>>
    /\ losers = <<>>
    /\ direction = "up"
    /\ ci = 1
    /\ cards = <<>>
    /\ NEWS_CACHE = EmptyMap
    /\ feed_requests = EmptyMap
    /\ calls = {}
    /\ loaded = {}
    /\ crashes = 0

Init == MainInit /\ probe = "none"

\* a process starts: main() up to the loop over target_days
StartRun ==
    /\ Exited
    /\ runs < MaxRuns
    /\ \E t \in today..MaxToday :
          /\ today' = t
          /\ target_days' = TargetDays(t)
    /\ runs' = runs + 1
    /\ report_meta' = load_existing_meta(archive)
    /\ loaded' = DOMAIN load_existing_meta(archive)
    /\ di' = 1
    /\ pc' = "day"
    /\ df' = <<>> /\ gainers' = <<>> /\ losers' = <<>>
    /\ direction' = "up" /\ ci' = 1 /\ cards' = <<>>
    /\ NEWS_CACHE' = EmptyMap /\ feed_requests' = EmptyMap /\ calls' = {}
    /\ UNCHANGED <<disk, crashes, probe>>

InLoop == pc = "day" /\ di <= Len(target_days)

\* build_day_report: the provider raises; the exception ends the process
FetchMarketFails ==
    /\ InLoop
    /\ pc' = "DataSourceError"
    /\ crashes' = crashes + 1
    /\ UNCHANGED <<today, runs, disk, report_meta, target_days, di, frame,
                   position, news, loaded, probe>>

\* build_day_report: the frames are fetched, filtered and sorted
BeginDay ==
    /\ InLoop
    /\ \E market \in ProviderFrames(target_days[di]) :
          LET r == build_day_report(target_days[di], market)
          IN  /\ df' = FilterFrame(market)
              /\ gainers' = r.gainers
              /\ losers' = r.losers
              /\ pc' = IF r.size = 0 THEN "return" ELSE "cards"
    /\ direction' = "up"
    /\ ci' = 1
    /\ cards' = <<>>
    /\ UNCHANGED <<today, runs, disk, report_meta, target_days, di, news,
                   loaded, crashes, probe>>

Sub == IF direction = "up" THEN gainers ELSE losers

CardRow == Sub[ci]

LatestDay == target_days[Len(target_days)]

\* the position after the card of rank ci is rendered
Advance ==
    IF ci < Min(DEEP_CARDS, Len(Sub))
    THEN pc' = "cards" /\ direction' = direction /\ ci' = ci + 1
    ELSE IF direction = "up"
    THEN pc' = "cards" /\ direction' = "down" /\ ci' = 1
    ELSE pc' = "return" /\ direction' = direction /\ ci' = ci

CardUnchanged ==
    UNCHANGED <<today, runs, disk, report_meta, target_days, di, frame, loaded,
                probe>>

\* a card of a day or rank news is not searched for
CardWithoutSearch ==
    /\ pc = "cards"
    /\ ~ShouldSearchNews(target_days[di], LatestDay, ci)
    /\ cards' = Append(cards, DeepCard(target_days[di], direction, ci, CardRow,
                                       <<>>, "none"))
    /\ Advance
    /\ UNCHANGED <<news, crashes>>
    /\ CardUnchanged

\* the effect of the call fetch_related_news whose outcome is r
Lookup(r, how) ==
    /\ NEWS_CACHE' = r.cache
    /\ feed_requests' =
          IF r.requested
          THEN Put(feed_requests, r.key, Get(feed_requests, r.key, 0) + 1)
          ELSE feed_requests
    /\ calls' = calls \cup
          {[name |-> CardRow.name, day |-> target_days[di], latest |-> LatestDay,
            direction |-> direction, rank |-> ci, key |-> r.key, ret |-> r.ret,
            requested |-> r.requested, how |-> how]}
    /\ IF r.raised
       THEN /\ pc' = "RequestError"
            /\ crashes' = crashes + 1
            /\ UNCHANGED position
       ELSE /\ cards' = Append(cards, DeepCard(target_days[di], direction, ci,
                                               CardRow, r.ret, how))
            /\ Advance
            /\ UNCHANGED crashes
    /\ CardUnchanged

\* a card whose news comes from NEWS_CACHE
CardCacheHit ==
    /\ pc = "cards"
    /\ ShouldSearchNews(target_days[di], LatestDay, ci)
    /\ LET r == fetch_related_news(NEWS_CACHE, CardRow.name, target_days[di],
                                   direction, RequestFails)
       IN  ~r.requested /\ Lookup(r, "cached")

\* a card whose feed request fails
CardFetchFails ==
    /\ pc = "cards"
    /\ ShouldSearchNews(target_days[di], LatestDay, ci)
    /\ LET r == fetch_related_news(NEWS_CACHE, CardRow.name, target_days[di],
                                   direction, RequestFails)
       IN  r.requested /\ Lookup(r, "failed")

\* a card whose feed request is answered
CardFetchParsed ==
    /\ pc = "cards"
    /\ ShouldSearchNews(target_days[di], LatestDay, ci)
    /\ \E response \in FeedResponses :
          LET r == fetch_related_news(NEWS_CACHE, CardRow.name, target_days[di],
                                      direction, response)
          IN  r.requested /\ Lookup(r, "parsed")

\* build_day_report on an empty frame: no card is built, and the call raises
\* at gainers.iloc[0] at the latest
EndDayIndexError ==
    /\ pc = "return"
    /\ gainers = <<>>
    /\ pc' = "IndexError"
    /\ crashes' = crashes + 1
    /\ UNCHANGED <<today, runs, disk, report_meta, target_days, di, frame,
                   position, news, loaded, probe>>

\* build_day_report returns; main() writes the page and records the day
EndDay ==
    /\ pc = "return"
    /\ gainers # <<>>
    /\ LET report == DayRecord(target_days[di], df)
       IN  /\ files' = files \cup {ReportFile(report.date)}
           /\ report_meta' = Put(report_meta, report.date, report)
    /\ di' = di + 1
    /\ pc' = "day"
    /\ UNCHANGED <<today, runs, archive, index_html, sitemap_xml, target_days,
                   frame, position, news, loaded, crashes, probe>>

\* main() after the loop: reconcile with the files, write index, sitemap and
\* report_index.json
FinishRun ==
    /\ pc = "day"
    /\ di > Len(target_days)
    /\ LET meta    == Reconcile(report_meta, files)
           reports == Reports(meta)
       IN  /\ report_meta' = meta
           /\ index_html' = build_index(reports)
           /\ sitemap_xml' = build_sitemap([k \in DOMAIN reports |-> reports[k].path])
           /\ archive' = [exists |-> TRUE, data |-> SavedArchive(reports)]
    /\ pc' = "done"
    /\ UNCHANGED <<today, runs, files, target_days, di, frame, position, news,
                   loaded, crashes, probe>>

Next ==
    \/ StartRun
    \/ FetchMarketFails
    \/ BeginDay
    \/ CardWithoutSearch
    \/ CardCacheHit
    \/ CardFetchFails
    \/ CardFetchParsed
    \/ EndDayIndexError
    \/ EndDay
    \/ FinishRun

Spec == Init /\ [][Next]_vars

-----------------------------------------------------------------------------
(* Direct calls of fetch_related_news on the feeds of a small item pool    *)

MaxFeedLen == 4     \* the number of items of a feed

ItemPool ==
    { Item(<<"ACME", " ", "ko:geupdeung">>, <<"L1">>, <<"Blog">>),
      Item(<<"acme", " ", "ko:geupdeung", " ", "-", " ", "ko:yonhapnews">>,
           <<"L2">>, <<>>),
      Item(<<" ", "ACME", " ", "ko:geupdeung", " ">>, <<"L3">>, <<"chosunbiz">>),
      Item(<<"ACME", " ", "ko:harak">>, <<"L4">>, <<"ko:newsis">>),
      Item(<<"Acme", " ", "ko:harak">>, <<"L5">>, <<"MK.co.kr">>),
      Item(<<"ko:jusik", " ", "ko:sijang">>, <<"L6">>, <<"ko:newsis">>),
      Item(<<"ACME", " ", "ko:geupdeung">>, <<" ">>, <<"ko:newsis">>),
      Item(<<"ko:jusik", " ", "ko:sijang">>, <<"L8">>, <<"Blog">>) }

InitNews ==
    /\ MainInit
    /\ probe \in {[fn |-> "fetch_related_news", state |-> "called",
                   stock_name |-> <<"ACME">>, direction |-> d, feed |-> f] :
                      d \in Directions, f \in SeqsUpTo(ItemPool, MaxFeedLen)}

ProbeFetchNews ==
    /\ probe.fn = "fetch_related_news"
    /\ probe.state = "called"
    /\ probe' =
          [fn |-> probe.fn, state |-> "returned",
           stock_name |-> probe.stock_name, direction |-> probe.direction,
           feed |-> probe.feed,
           ret |-> fetch_related_news(EmptyMap, probe.stock_name, Today0,
                                      probe.direction, Parsed(probe.feed)).ret,
           kept |-> Kept(probe.feed, probe.stock_name, probe.direction)]
    /\ UNCHANGED mainVars

NextNews == ProbeFetchNews

SpecNews == InitNews /\ [][NextNews]_vars

-----------------------------------------------------------------------------
(* Direct calls of stock_comment                                           *)

MaxTurnover == 12   \* the turnovers 0..MaxTurnover, and 150, 250, 600
MaxMedian == 2      \* the medians 0..MaxMedian, and 100

InitComment ==
    /\ MainInit
    /\ probe \in {[fn |-> "stock_comment", state |-> "called", rate |-> r,
                   turnover |-> t, median_turnover |-> m] :
                      r \in (-MAX_RATE - 1)..(MAX_RATE + 1),
                      t \in (0..MaxTurnover) \cup {150, 250, 600},
                      m \in (0..MaxMedian) \cup {100}}

ProbeStockComment ==
    /\ probe.fn = "stock_comment"
    /\ probe.state = "called"
    /\ probe' =
          [fn |-> probe.fn, state |-> "returned", rate |-> probe.rate,
           turnover |-> probe.turnover,
           median_turnover |-> probe.median_turnover,
           ret |-> stock_comment(probe.rate, probe.turnover,
                                 probe.median_turnover)]
    /\ UNCHANGED mainVars

NextComment == ProbeStockComment

SpecComment == InitComment /\ [][NextComment]_vars

-----------------------------------------------------------------------------
(* Direct calls of build_day_report on generated market days               *)

MaxRep == 31        \* the number of rows of the first kind
MaxTail == 2        \* the number of rows of the second kind

Kind(n, r, v, to) == [name |-> n, rate |-> r, volume |-> v, turnover |-> to]

RowKinds ==
    { Kind(<<"ACME">>, 30, 1000, 600),
      Kind(<<"BETA">>, -30, 1000, 100),
      Kind(<<"ACME">>, 31, 5000, 900),
      Kind(<<"BETA">>, -31, 5000, 100),
      Kind(<<"ACME">>, 12, 999, 250),
      Kind(<<"BETA">>, 0, 2000, 150),
      Kind(<<"ACME">>, 7, 1500, 0) }

\* n rows of kind a followed by m rows of kind b, the ticker being the row number
Market(a, n, b, m) ==
    [k \in 1..(n + m) |->
        LET kind == IF k <= n THEN a ELSE b
        IN  Row(ToString(k), kind.name, kind.rate, kind.volume, kind.turnover)]

InitSelect ==
    /\ MainInit
    /\ probe \in {[fn |-> "build_day_report", state |-> "called",
                   market |-> Market(a, n, b, m)] :
                      a \in RowKinds, n \in 0..MaxRep, b \in RowKinds,
                      m \in 0..MaxTail}

ProbeBuildDayReport ==
    /\ probe.fn = "build_day_report"
    /\ probe.state = "called"
    /\ probe' = [fn |-> probe.fn, state |-> "returned", market |-> probe.market,
                 out |-> build_day_report(Today0, probe.market)]
    /\ UNCHANGED mainVars

NextSelect == ProbeBuildDayReport

SpecSelect == InitSelect /\ [][NextSelect]_vars

-----------------------------------------------------------------------------
(* Properties of the archive                                               *)

ArchiveKeys == DOMAIN load_existing_meta(archive)

\* the dates of the window of the running (or last) process
Recomputed == {Strftime(target_days[k]) : k \in DOMAIN target_days}

\* the dates with a report file on disk
FileDates == {Strftime(d) : d \in {x \in 1..60 : ReportFile(Strftime(x)) \in files}}

IsPlaceholder(r) ==
    /\ r.strong = "-" /\ r.weak = "-" /\ r.advance = "-"
    /\ r.decline = "-" /\ r.flat = "-" /\ r.top_focus = "-"

\* C1: every date that is a key of report_index.json stays a key in every
\* later step, with its record unchanged unless the run recomputed the date;
\* and as long as no process has been ended by an exception, the keys a run
\* adds are dates it recomputed.
C1_ArchiveKeepsDates ==
    [][ /\ \A d \in ArchiveKeys :
              /\ d \in ArchiveKeys'
              /\ d \notin Recomputed => archive'.data[d] = archive.data[d]
        /\ crashes = 0 => (ArchiveKeys' \ ArchiveKeys) \subseteq Recomputed
      ]_vars

\* a second completed run whose window has shifted: the archive holds a
\* date that the run did not recompute
C1_Witness ==
    /\ pc = "done"
    /\ runs = 2
    /\ crashes = 0
    /\ \E d \in ArchiveKeys : d \notin Recomputed

\* C6: after a completed run every date with a report file on disk is a key
\* of report_index.json and is listed in the index; a date with a file that
\* was neither loaded from the archive nor recomputed by the run has a
\* placeholder record.
C6_FilesAreArchived ==
    pc = "done" =>
        \A d \in FileDates :
            /\ d \in ArchiveKeys
            /\ d \in Range(index_html)
            /\ (d \notin loaded /\ d \notin Recomputed)
                  => IsPlaceholder(archive.data[d])

\* a completed run that found the file of a date left by a process that had
\* ended before it wrote the archive
C6_Witness ==
    /\ pc = "done"
    /\ crashes > 0
    /\ \E d \in FileDates :
          /\ d \notin loaded
          /\ d \notin Recomputed
          /\ IsPlaceholder(archive.data[d])

-----------------------------------------------------------------------------
(* Properties of the news lookups of a run                                 *)

NoNews(card) == card.news = <<>> /\ card.reason = <<"no related news">>

\* C4: a failed feed request gives an empty result, cached under its key,
\* and raises nothing: the card says "no related news", and the report of
\* the day is written.
C4_FeedFailureIsAbsorbed ==
    /\ pc # "RequestError"
    /\ \A c \in calls :
          c.how = "failed" => c.ret = <<>> /\ Get(NEWS_CACHE, c.key, "-") = <<>>
    /\ \A k \in DOMAIN cards :
          cards[k].lookup = "failed" =>
              /\ NoNews(cards[k])
              /\ pc # "IndexError"
              /\ \/ pc \in {"cards", "return"} /\ cards[k].day = target_days[di]
                 \/ ReportFile(Strftime(cards[k].day)) \in files

\* the report of a day is on disk, one of its cards having met a failed
\* request
C4_Witness ==
    /\ pc = "day"
    /\ \E k \in DOMAIN cards :
          /\ cards[k].lookup = "failed"
          /\ ReportFile(Strftime(cards[k].day)) \in files

\* C5: within a process the feed is requested at most once per cache key,
\* every call returns what NEWS_CACHE holds for its key (so the entry never
\* changes after the first call, a failed one included), and calls with one
\* key have one (name, day, direction).
C5_CacheWriteOnce ==
    /\ \A k \in DOMAIN feed_requests : feed_requests[k] <= 1
    /\ DOMAIN NEWS_CACHE = {c.key : c \in calls}
    /\ \A c \in calls : NEWS_CACHE[c.key] = c.ret
    /\ \A c1, c2 \in calls :
          c1.key = c2.key =>
              /\ c1.name = c2.name
              /\ c1.day = c2.day
              /\ c1.direction = c2.direction

\* a call answered from the cache after the request for its key had failed,
\* and two keys that differ in the direction only
C5_Witness ==
    /\ \E c1, c2 \in calls :
          c1.key = c2.key /\ c1.how = "failed" /\ c2.how = "cached"
    /\ \E c1, c2 \in calls :
          c1.name = c2.name /\ c1.day = c2.day /\ c1.direction # c2.direction

\* C7: fetch_related_news is called, and the feed requested, only for a card
\* of rank at most 5 of a day at most 3 days before the latest day of the
\* batch; every other card is rendered without a lookup and says "no
\* related news".
C7_LookupsAreBounded ==
    /\ \A c \in calls : c.rank <= 5 /\ c.latest - c.day <= 3
    /\ DOMAIN feed_requests \subseteq {c.key : c \in calls}
    /\ pc # "RequestError"
    /\ \A k \in DOMAIN cards :
          (cards[k].rank > 5 \/ LatestDay - cards[k].day > 3) =>
              cards[k].lookup = "none" /\ NoNews(cards[k])

\* a card of rank 6 rendered without a lookup on a day whose card of rank 5
\* had one, in a run that also looked up a day exactly 3 days old
C7_Witness ==
    /\ \E k \in DOMAIN cards :
          /\ cards[k].rank = 6
          /\ cards[k].lookup = "none"
          /\ \E c \in calls : c.rank = 5 /\ c.day = cards[k].day
    /\ \E c \in calls : c.latest - c.day = 3

-----------------------------------------------------------------------------
(* Properties of fetch_related_news on one feed                            *)

Returned == probe.state = "returned"

ProbeCandidates ==
    Candidates(probe.feed, 1, probe.stock_name, probe.direction)

\* the feed items whose candidates are returned
KeptItems == {probe.kept[k].item : k \in DOMAIN probe.kept}

\* the pairs of candidates with equal headlines after strip and lower, the
\* first one earlier in the feed
DupPairs ==
    {p \in Range(ProbeCandidates) \X Range(ProbeCandidates) :
        p[1].item < p[2].item /\ Lower(Strip(p[1].title)) = Lower(Strip(p[2].title))}

\* C2 as claimed: of two candidates with the same normalised headline exactly
\* one is returned, the one that comes first in the feed.
C2_FirstInFeedSurvives ==
    Returned =>
        \A p \in DupPairs : p[1].item \in KeptItems /\ p[2].item \notin KeptItems

\* C2 amended: of two candidates with the same normalised headline at most
\* one is returned, and never the one of lower score, nor the later one of
\* two of equal score.
C2_AtMostOneBestScoredSurvives ==
    Returned =>
        \A p \in DupPairs :
            /\ ~(p[1].item \in KeptItems /\ p[2].item \in KeptItems)
            /\ p[1].item \in KeptItems => p[1].score >= p[2].score
            /\ p[2].item \in KeptItems => p[2].score > p[1].score

\* of two such candidates the later one in the feed is returned, and of two
\* others neither is
C2_Witness ==
    /\ Returned
    /\ \E p \in DupPairs : p[2].item \in KeptItems
    /\ \E p \in DupPairs :
          /\ p[1].item \notin KeptItems /\ p[2].item \notin KeptItems
          /\ Len(probe.ret) < MAX_NEWS_PER_STOCK
          /\ p[2].source \in TRUSTED_NEWS_SOURCES

\* C3: every returned headline has a source on the allow-list, and no
\* candidate of another source is returned, whatever its score.
C3_OnlyTrustedSources ==
    Returned =>
        /\ \A k \in DOMAIN probe.ret :
              probe.ret[k].source \in TRUSTED_NEWS_SOURCES
        /\ Len(probe.ret) = Len(probe.kept)
        /\ \A c \in Range(ProbeCandidates) :
              c.source \notin TRUSTED_NEWS_SOURCES => c.item \notin KeptItems

\* a candidate of score 6 from a source off the list is left out of a result
\* that has room for it
C3_Witness ==
    /\ Returned
    /\ Len(probe.ret) \in 1..(MAX_NEWS_PER_STOCK - 1)
    /\ \E c \in Range(ProbeCandidates) :
          c.source \notin TRUSTED_NEWS_SOURCES /\ c.score = 6

\* the selection loop of lines 177..199 with the test of the score left out
RECURSIVE SelectLoop_nothreshold(_, _, _, _)
SelectLoop_nothreshold(cands, k, seen, kept) ==
    IF k > Len(cands) THEN kept
    ELSE LET c == cands[k]
             norm == NormTitle(c)
         IN  IF norm \in seen
             THEN SelectLoop_nothreshold(cands, k + 1, seen, kept)
             ELSE IF c.source \notin TRUSTED_NEWS_SOURCES
                  THEN SelectLoop_nothreshold(cands, k + 1, seen \cup {norm}, kept)
             ELSE IF Len(kept) + 1 >= MAX_NEWS_PER_STOCK
                  THEN Append(kept, c)
             ELSE SelectLoop_nothreshold(cands, k + 1, seen \cup {norm},
                                         Append(kept, c))

\* the candidates whose headline holds neither the name of the instrument
\* nor a keyword of the direction
Unrelated ==
    {c \in Range(ProbeCandidates) :
        /\ ~Contains(probe.stock_name, c.title)
        /\ \A w \in direction_words(probe.direction) : ~Contains(<<w>>, c.title)}

\* C12: every candidate of a source on the allow-list has a score of 3 or
\* more, so the test "score < 2" removes none of them: the headlines
\* returned are those the loop returns with that test left out.
C12_ScoreTestRemovesNothing ==
    Returned =>
        /\ \A c \in Range(ProbeCandidates) :
              c.source \in TRUSTED_NEWS_SOURCES => c.score >= 3
        /\ probe.kept =
              SelectLoop_nothreshold(SortByScore(ProbeCandidates), 1, {}, <<>>)

\* a headline of an allow-listed source with neither the name nor a keyword,
\* of score 3, is returned
C12_Witness ==
    /\ Returned
    /\ \E c \in Unrelated :
          /\ c.source \in TRUSTED_NEWS_SOURCES
          /\ c.score = 3
          /\ c.item \in KeptItems

-----------------------------------------------------------------------------
(* Properties of the mover selection                                       *)

Qualifies(r) == r.volume >= 1000 /\ r.rate >= -30 /\ r.rate <= 30

\* the size of the filtered set of the market day of the call
FilteredSize == Cardinality({k \in DOMAIN probe.market : Qualifies(probe.market[k])})

\* C8 as claimed: build_day_report returns a report for every day whose
\* filtered set holds 0 to 29 instruments, both lists having the length of
\* that set.
C8_SmallDaysComplete ==
    (Returned /\ FilteredSize < 30) =>
        /\ probe.out.raised = ""
        /\ Len(probe.out.gainers) = FilteredSize
        /\ Len(probe.out.losers) = FilteredSize

\* C9: the gainers are sorted non-increasing and the losers non-decreasing by
\* rate, each list has min(30, size of the filtered set) rows, and every row
\* of either list has volume >= 1000 and -30 <= rate <= 30.
C9_MoverLists ==
    Returned =>
        LET g == probe.out.gainers
            l == probe.out.losers
        IN  /\ \A k \in 1..(Len(g) - 1) : g[k].rate >= g[k + 1].rate
            /\ \A k \in 1..(Len(l) - 1) : l[k].rate <= l[k + 1].rate
            /\ Len(g) = Min(30, FilteredSize)
            /\ Len(l) = Min(30, FilteredSize)
            /\ \A k \in DOMAIN g : Qualifies(g[k])
            /\ \A k \in DOMAIN l : Qualifies(l[k])

\* a day with more than 30 qualifying rows, of two rates, the higher rate
\* last in the provider's order
C9_Witness ==
    /\ Returned
    /\ FilteredSize > 30
    /\ probe.market[1].rate < probe.market[Len(probe.market)].rate
    /\ probe.out.gainers[1].rate > probe.out.gainers[30].rate

-----------------------------------------------------------------------------
(* Properties of stock_comment                                             *)

\* C10 as claimed: the flow label is "turnover concentration" if the median
\* is positive and turnover >= 5 x median, else "turnover inflow" if
\* turnover >= 2 x median, else "turnover ordinary".
C10_FlowAsClaimed ==
    Returned =>
        probe.ret[3] =
            IF probe.median_turnover > 0
                  /\ probe.turnover >= 5 * probe.median_turnover
            THEN "turnover concentration"
            ELSE IF probe.turnover >= 2 * probe.median_turnover
            THEN "turnover inflow"
            ELSE "turnover ordinary"

\* C10 amended: the flow label is "turnover concentration" if the median is
\* positive and turnover >= 5 x median, else "turnover inflow" if the median
\* is positive and turnover >= 2 x median, else "turnover ordinary",
\* whatever the rate.
C10_FlowLabel ==
    Returned =>
        probe.ret[3] =
            IF probe.median_turnover > 0
                  /\ probe.turnover >= 5 * probe.median_turnover
            THEN "turnover concentration"
            ELSE IF probe.median_turnover > 0
                      /\ probe.turnover >= 2 * probe.median_turnover
            THEN "turnover inflow"
            ELSE "turnover ordinary"

\* turnover 250 against a median of 100 is an inflow
C10_Witness ==
    /\ Returned
    /\ probe.turnover = 250
    /\ probe.median_turnover = 100
    /\ probe.ret[3] = "turnover inflow"

\* C11: for a rate in -30..30 the momentum label is "sharp surge" from 20
\* up, "strong rise" from 10 to below 20, "moderate rise" from 5 to below 10,
\* "sharp plunge" down from -20, "strong fall" from above -20 to -10,
\* "moderate fall" from above -10 to -5 and "flat/range-bound" strictly
\* between -5 and 5, the bounds named being included, whatever turnover and
\* median turnover are.
C11_MomentumLabel ==
    (Returned /\ probe.rate \in (0 - MAX_RATE)..MAX_RATE) =>
        /\ probe.rate \in 20..MAX_RATE      => probe.ret[1] = "sharp surge"
        /\ probe.rate \in 10..19            => probe.ret[1] = "strong rise"
        /\ probe.rate \in 5..9              => probe.ret[1] = "moderate rise"
        /\ probe.rate \in (0 - MAX_RATE)..(0 - 20) => probe.ret[1] = "sharp plunge"
        /\ probe.rate \in (0 - 19)..(0 - 10) => probe.ret[1] = "strong fall"
        /\ probe.rate \in (0 - 9)..(0 - 5)   => probe.ret[1] = "moderate fall"
        /\ probe.rate \in (0 - 4)..4         => probe.ret[1] = "flat/range-bound"

\* a rate of exactly -10 with a turnover five times the median is a strong
\* fall
C11_Witness ==
    /\ Returned
    /\ probe.rate = 0 - 10
    /\ probe.turnover = 600
    /\ probe.median_turnover = 100
    /\ probe.ret[1] = "strong fall"

====
